---- MODULE Spec2Model ----
(***************************************************************************)
(* The checkpointed parallel backfill pipeline of src/bin/backfill-*.rs:   *)
(* candidate query, resolved-set filter (read_csv), rayon worker pool,     *)
(* mpsc channel, CSV writer thread, join, SQL generation.                  *)
(*                                                                         *)
(* One behaviour is a sequence of runs of ONE backfill binary (task)       *)
(* against an unchanged store and an unchanged artifact directory.  A run  *)
(* may complete, abort, or be killed externally at any point.              *)
(*                                                                         *)
(* Abstractions: a CSV record is a sequence of field strings; the journal  *)
(* file is a sequence of records (the file is written record by record, a  *)
(* torn record is not modelled); the buffer of csv::Writer is counted in   *)
(* records instead of bytes; a crate's name and version are abstracted by  *)
(* its version id.                                                         *)
(***************************************************************************)
EXTENDS Integers, Sequences, FiniteSets

\* ---------------------------------------------------------------- bounds
MaxId == 3          \* version ids in the store are 1..MaxId
NumWorkers == 2     \* threads of the rayon pool
MaxRuns == 2        \* runs of the binary in one behaviour
BufCap == 2         \* records the csv::Writer buffer holds before it flushes
chunk_size == 2     \* --chunk-size / CHUNK_SIZE, scaled down
MaxRecords == 4     \* records of a journal file given to the SQL step alone

Ids == 1..MaxId

Tasks == {"crate_size", "edition", "features", "lib_bin", "version_metadata", "links"}

\* What the artifact directory holds for a version:
\*   missing     no .crate file at the derived path
\*   toolarge    a valid .crate file whose length does not fit into i32
\*   unparsable  a file that process_tarball rejects
\*   nopkg       a tarball whose manifest has no package section
\*   same        a valid tarball whose derived value equals the stored one
\*   ok          a valid tarball whose derived value differs from the stored one
ArtKinds == {"missing", "toolarge", "unparsable", "nopkg", "same", "ok"}

\* ------------------------------------------------- strings and CSV fields
Digit(d) ==
  CASE d = 0 -> "0" [] d = 1 -> "1" [] d = 2 -> "2" [] d = 3 -> "3" [] d = 4 -> "4"
    [] d = 5 -> "5" [] d = 6 -> "6" [] d = 7 -> "7" [] d = 8 -> "8" [] OTHER -> "9"

RECURSIVE to_string(_)
to_string(n) == IF n < 10 THEN Digit(n) ELSE to_string(n \div 10) \o Digit(n % 10)

ParseTable == [n \in 0..99 |-> to_string(n)]

ParseOk(s) == \E n \in DOMAIN ParseTable : ParseTable[n] = s

Parse(s) == CHOOSE n \in DOMAIN ParseTable : ParseTable[n] = s

Some(x) == [some |-> TRUE, v |-> x]

None == [some |-> FALSE, v |-> ""]

Range(s) == {s[i] : i \in 1..Len(s)}

IsPrefix(s, t) == Len(s) <= Len(t) /\ SubSeq(t, 1, Len(s)) = s

\* -------------------------------------------------------------- variables
VARIABLES
  task,                \* which backfill binary is run
  artifact,            \* the artifact directory: version id -> ArtKinds
  journal,             \* records durably in the CSV file
  csv_exists,          \* the CSV file exists
  sql,                 \* the SQL file: sequence of statements (batches of rows)
  pc,                  \* position of main
  exit,                \* exit status of the run that ended last
  conn,                \* the store connection is open
  processed_versions,  \* result of read_csv
  versions,            \* the (filtered) candidates of the run
  todo,                \* candidates no worker has taken yet
  workers,             \* the ids the threads of the pool are processing
  rx,                  \* entries in the channel
  handle,              \* state of the CSV writer thread
  wbuf,                \* records in the csv::Writer buffer, not yet in the file
  collected,           \* links task: versions_with_links
  runs,                \* number of runs started
  journal0,            \* history: the journal when the run started
  inspected,           \* history: ids whose artifact a worker inspected in this run
  sent                 \* history: entries sent into the channel in this run

vars == <<task, artifact, journal, csv_exists, sql, pc, exit, conn,
          processed_versions, versions, todo, workers, rx, handle, wbuf,
          collected, runs, journal0, inspected, sent>>

env == <<task, artifact>>
files == <<journal, csv_exists, sql>>
hist == <<journal0, inspected, sent>>

\* The rows the candidate query returns.  The binaries only write a SQL
\* file, they never update the store, so every run gets the same rows.
Store == Ids

\* ------------------------------------------------------ task parameters
UsesJournal(t) == t # "links"

\* read_csv builds its reader with csv::Reader::from_reader (has_headers
\* defaults to true) except in backfill-version-metadata.
ReadHasHeaders(t) == t # "version_metadata"

\* The SQL generation step does the same except in backfill-features and
\* backfill-version-metadata.
CompileHasHeaders(t) == t \in {"crate_size", "edition", "lib_bin"}

\* Only backfill-crate-size drops the connection right after the query.
DropsConn(t) == t = "crate_size"

ArtSize == 12

\* The kinds of artifact the closure of a task tells apart: backfill-crate-size
\* only looks at the file's metadata, the others never look at its length,
\* and only the features and lib/bin tasks compare with the stored value.
\* A kind left out behaves like "ok" for that task.
Kinds(t) ==
  CASE t = "crate_size" -> {"missing", "toolarge", "ok"}
    [] t \in {"features", "lib_bin"} -> {"missing", "unparsable", "same", "ok"}
    [] OTHER -> {"missing", "unparsable", "nopkg", "ok"}

\* std::fs::metadata / File::open succeed iff the file is there.
FileOpens(k) == k # "missing"

\* size.to_i32()
FitsI32(k) == k # "toolarge"

\* crates_io_tarball::process_tarball(pkgname, file, u64::MAX): Err, or the
\* parsed manifest, of which the callers read the optional package section.
process_tarball(k) ==
  IF k = "unparsable" THEN [ok |-> FALSE, package |-> FALSE]
  ELSE [ok |-> TRUE, package |-> k # "nopkg"]

\* The closure passed to for_each / filter_map: what a worker does with
\* one candidate.
\*   fail   the inspection failed: warn and return
\*   same   the derived value matches the stored one: nothing is sent
\*   send   tx.send((version_id, value...))
\*   keep   links task: the tuple is kept by filter_map
\*   panic  the closure panics
Outcome(t, k) ==
  LET Fail == [res |-> "fail", val |-> <<>>]
      tarball == process_tarball(k)
  IN CASE t = "crate_size" ->
         IF ~FileOpens(k) THEN Fail
         ELSE IF ~FitsI32(k) THEN Fail
         ELSE [res |-> "send", val |-> <<ArtSize>>]
    [] t = "edition" ->
         IF ~FileOpens(k) THEN Fail
         ELSE IF ~tarball.ok THEN Fail
         ELSE IF ~tarball.package THEN [res |-> "send", val |-> <<None>>]
         ELSE [res |-> "send", val |-> <<Some("2021")>>]
    [] t = "features" ->
         IF ~FileOpens(k) THEN Fail
         ELSE IF ~tarball.ok THEN Fail
         ELSE IF k = "same" THEN [res |-> "same", val |-> <<>>]
         ELSE [res |-> "send", val |-> <<"{}">>]
    [] t = "lib_bin" ->
         IF ~FileOpens(k) THEN Fail
         ELSE IF ~tarball.ok THEN Fail
         ELSE IF k = "same" THEN [res |-> "same", val |-> <<>>]
         ELSE [res |-> "send", val |-> <<TRUE, "a">>]
    [] t = "version_metadata" ->
         IF ~FileOpens(k) THEN Fail
         ELSE IF ~tarball.ok THEN Fail
         ELSE IF ~tarball.package
           THEN [res |-> "send", val |-> <<None, None, None, None, "", "">>]
         ELSE [res |-> "send",
               val |-> <<Some("d"), Some("h"), Some("o"), Some("r"), "c", "k">>]
    [] OTHER ->
         IF ~FileOpens(k) THEN Fail
         ELSE IF ~tarball.ok THEN Fail
         ELSE IF ~tarball.package THEN [res |-> "panic", val |-> <<>>]
         ELSE [res |-> "keep", val |-> <<"l">>]

SendsEntry_M(o) == o.res \in {"send", "fail"}

SendsEntry_Same(o) == o.res \in {"send", "same"}

\* Whether the closure reaches tx.send: the error arms return before it.
SendsEntry(o) == o.res = "send"

Quoted(o) == IF o.some THEN "'" \o o.v \o "'" ELSE "NULL"

WriteRecord_M(t, e) == <<to_string(e.version_id)>>

\* The body of the writer thread's loop: the CSV record of one entry.
WriteRecord(t, e) ==
  CASE t = "crate_size" -> <<to_string(e.version_id), to_string(e.val[1])>>
    [] t = "edition" -> <<to_string(e.version_id), Quoted(e.val[1])>>
    [] t = "features" -> <<to_string(e.version_id), "'" \o e.val[1] \o "'::json">>
    [] t = "lib_bin" ->
         <<to_string(e.version_id), IF e.val[1] THEN "t" ELSE "f",
           "{" \o e.val[2] \o "}">>
    [] OTHER ->
         <<to_string(e.version_id), Quoted(e.val[1]), Quoted(e.val[2]),
           Quoted(e.val[3]), Quoted(e.val[4]),
           "{" \o e.val[5] \o "}", "{" \o e.val[6] \o "}">>

\* rdr.records(): with has_headers the first record of the file is taken
\* as the header row and is not yielded.
Records(has_headers, file) ==
  IF has_headers /\ file # <<>> THEN Tail(file) ELSE file

\* fn read_csv
read_csv(t, exists, file) ==
  IF ~exists THEN {}
  ELSE {Parse(r[1]) : r \in Range(Records(ReadHasHeaders(t), file))}

Filter_M(cands, processed) == {v \in cands : v \notin processed /\ v # 1}

\* The filter in main: keep the candidates that are not in the set.
Filter(cands, processed) == {v \in cands : v \notin processed}

RECURSIVE Chunks(_, _)
Chunks(s, n) ==
  IF s = <<>> THEN <<>>
  ELSE IF Len(s) <= n THEN <<s>>
  ELSE <<SubSeq(s, 1, n)>> \o Chunks(SubSeq(s, n + 1, Len(s)), n)

KeepRecord(t, r) == t # "edition" \/ r[2] # "NULL"

\* The number of fields of a record the row formatting of a task indexes.
Columns(t) ==
  CASE t = "lib_bin" -> 3
    [] t = "version_metadata" -> 7
    [] OTHER -> 2

\* The positions, among the records rdr.records() yields, at which the SQL
\* generation step panics: the reader is not flexible, so a record whose
\* number of fields differs from that of the first record of the file is an
\* Err that record.unwrap() panics on, and &record[i] panics on a record
\* that has no field i.  The id field is copied as text, it is never parsed.
BadPositions(t, file) ==
  LET s == Records(CompileHasHeaders(t), file)
  IN {i \in 1..Len(s) : Len(s[i]) # Len(file[1]) \/ Len(s[i]) < Columns(t)}

CompileFails(t, file) == BadPositions(t, file) # {}

\* The records the step has taken from the reader when it ends or panics.
Readable(t, file) ==
  LET s == Records(CompileHasHeaders(t), file)
      bad == BadPositions(t, file)
  IN IF bad = {} THEN s
     ELSE SubSeq(s, 1, (CHOOSE i \in bad : \A j \in bad : i <= j) - 1)

CompileWith_M(t, file, n) ==
  Chunks(SelectSeq(Readable(t, file), LAMBDA r : KeepRecord(t, r)), n + 1)

\* The SQL generation step of main: the batches of rows written with n rows
\* per batch.  File::create(SQL_PATH) precedes the loop over the lazy
\* chunks and every row is written as soon as it is read, so the rows read
\* before a panic are in the file.
CompileWith(t, file, n) ==
  Chunks(SelectSeq(Readable(t, file), LAMBDA r : KeepRecord(t, r)), n)

Compile(t, file) == CompileWith(t, file, chunk_size)

\* The where clause of the statements of a task: only backfill-lib-bin adds
\* "and versions.has_lib is null" to "where id = tmp.version_id".
Guarded(t) == t = "lib_bin"

\* The values a row of a statement sets the target fields to.
RowValue(r) == SubSeq(r, 2, Len(r))

\* The store after one emitted statement is executed on it.  st maps a
\* version id to the target field, <<>> when it is unset (null).
ApplyBatch(t, batch, st) ==
  [id \in DOMAIN st |->
     LET rows == {k \in 1..Len(batch) : batch[k][1] = to_string(id)}
     IN IF rows # {} /\ (Guarded(t) => st[id] = <<>>)
          THEN RowValue(batch[CHOOSE k \in rows : TRUE])
          ELSE st[id]]

\* The text of the values list of one statement, as a sequence of tokens: a
\* row "(id)" or a separator ",".  i is the index given by enumerate(), from
\* 0.  backfill-lib-bin writes the separator after a row, when
\* i < CHUNK_SIZE - 1; the other binaries write it before a row, when i > 0.
RECURSIVE RenderRows(_, _, _)
RenderRows(t, rows, i) ==
  IF rows = <<>> THEN <<>>
  ELSE LET row == "(" \o Head(rows)[1] \o ")"
       IN (IF t = "lib_bin"
             THEN <<row>> \o (IF i < chunk_size - 1 THEN <<",">> ELSE <<>>)
             ELSE (IF i > 0 THEN <<",">> ELSE <<>>) \o <<row>>)
          \o RenderRows(t, Tail(rows), i + 1)

Render(t, batch) == RenderRows(t, batch, 0)

\* The store after the statements of a SQL file are executed in order.
RECURSIVE ApplyAll(_, _, _)
ApplyAll(t, batches, st) ==
  IF batches = <<>> THEN st
  ELSE ApplyAll(t, Tail(batches), ApplyBatch(t, Head(batches), st))

RECURSIVE SortedSeq(_)
SortedSeq(S) ==
  IF S = {} THEN <<>>
  ELSE LET m == CHOOSE x \in S : \A y \in S : x <= y
       IN <<m>> \o SortedSeq(S \ {m})

\* links task: par_sort, then one statement per tuple.
LinksSql(S) == [i \in 1..Cardinality(S) |-> <<<<to_string(SortedSeq(S)[i]), "'l'">>>>]

\* ------------------------------------------------------------------- Init
Init ==
  /\ task \in Tasks
  /\ artifact \in [Ids -> Kinds(task)]
  /\ journal = <<>>
  /\ csv_exists = FALSE
  /\ sql = <<>>
  /\ pc = "idle"
  /\ exit = "none"
  /\ conn = FALSE
  /\ processed_versions = {}
  /\ versions = {}
  /\ todo = {}
  /\ workers = {}
  /\ rx = <<>>
  /\ handle = "none"
  /\ wbuf = <<>>
  /\ collected = {}
  /\ runs = 0
  /\ journal0 = <<>>
  /\ inspected = {}
  /\ sent = <<>>

\* ---------------------------------------------------------------- actions
Running == pc \notin {"idle", "exited"}

TxDropped_M == FALSE

\* tx has been dropped: by main (drop(tx)) or by the unwinding of main.
TxDropped == pc \in {"joining", "panicked"}

\* A run starts: connect and run the candidate query.  The store is not
\* changed by the binary, so the query returns the same rows in every run.
StartRun ==
  /\ ~Running
  /\ runs < MaxRuns
  /\ runs' = runs + 1
  /\ pc' = "queried"
  /\ conn' = TRUE
  /\ versions' = Store
  /\ processed_versions' = {}
  /\ collected' = {}
  /\ handle' = "none"
  /\ journal0' = journal
  /\ inspected' = {}
  /\ sent' = <<>>
  /\ UNCHANGED <<env, files, exit, todo, workers, rx, wbuf>>

StoreFail_M ==
  /\ ~Running
  /\ runs < MaxRuns
  /\ runs' = runs + 1
  /\ pc' = "exited"
  /\ exit' = "err"
  /\ conn' = FALSE
  /\ versions' = {}
  /\ processed_versions' = {}
  /\ collected' = {}
  /\ handle' = "none"
  /\ journal0' = journal
  /\ inspected' = {}
  /\ sent' = <<>>
  /\ sql' = <<>>
  /\ UNCHANGED <<env, journal, csv_exists, todo, workers, rx, wbuf>>

\* db::oneoff_connection() or get_results() returns Err: main returns it.
StoreFail ==
  /\ ~Running
  /\ runs < MaxRuns
  /\ runs' = runs + 1
  /\ pc' = "exited"
  /\ exit' = "err"
  /\ conn' = FALSE
  /\ versions' = {}
  /\ processed_versions' = {}
  /\ collected' = {}
  /\ handle' = "none"
  /\ journal0' = journal
  /\ inspected' = {}
  /\ sent' = <<>>
  /\ UNCHANGED <<env, files, todo, workers, rx, wbuf>>

\* read_csv and the filter over the candidates.
LoadAndFilter ==
  /\ pc = "queried"
  /\ UsesJournal(task)
  /\ conn' = IF DropsConn(task) THEN FALSE ELSE conn
  /\ processed_versions' = read_csv(task, csv_exists, journal)
  /\ versions' = Filter(versions, processed_versions')
  /\ pc' = "filtered"
  /\ UNCHANGED <<env, files, exit, todo, workers, rx, handle, wbuf, collected,
                 runs, hist>>

\* channel() and thread::spawn of the writer; the parallel iterator starts.
SpawnWriter ==
  /\ pc = "filtered"
  /\ handle' = "spawned"
  /\ todo' = versions
  /\ pc' = "work"
  /\ UNCHANGED <<env, files, exit, conn, processed_versions, versions, workers,
                 rx, wbuf, collected, runs, hist>>

\* links task: no journal, the parallel iterator starts right after the query.
StartLinks ==
  /\ pc = "queried"
  /\ ~UsesJournal(task)
  /\ todo' = versions
  /\ pc' = "work"
  /\ UNCHANGED <<env, files, exit, conn, processed_versions, versions, workers,
                 rx, handle, wbuf, collected, runs, hist>>

WriterOpen_M ==
  /\ Running
  /\ handle = "spawned"
  /\ handle' = "open"
  /\ csv_exists' = TRUE
  /\ journal' = <<>>
  /\ UNCHANGED <<env, sql, pc, exit, conn, processed_versions, versions,
                 todo, workers, rx, wbuf, collected, runs, hist>>

\* Writer thread: File::options().create(true).append(true).open(..).
WriterOpen ==
  /\ Running
  /\ handle = "spawned"
  /\ handle' = "open"
  /\ csv_exists' = TRUE
  /\ UNCHANGED <<env, journal, sql, pc, exit, conn, processed_versions, versions,
                 todo, workers, rx, wbuf, collected, runs, hist>>

\* The open fails: unwrap() panics the writer thread, rx is dropped.
WriterOpenFail ==
  /\ Running
  /\ handle = "spawned"
  /\ handle' = "panicked"
  /\ rx' = <<>>
  /\ UNCHANGED <<env, files, pc, exit, conn, processed_versions, versions,
                 todo, workers, wbuf, collected, runs, hist>>

WorkerTake_M(id) ==
  /\ pc = "work"
  /\ Cardinality(workers) < NumWorkers
  /\ id \in todo
  /\ id \notin workers
  /\ todo' = todo
  /\ workers' = workers \cup {id}
  /\ UNCHANGED <<env, files, pc, exit, conn, processed_versions, versions,
                 rx, handle, wbuf, collected, runs, hist>>

\* A thread of the rayon pool takes the next candidate.
WorkerTake(id) ==
  /\ pc = "work"
  /\ Cardinality(workers) < NumWorkers
  /\ id \in todo
  /\ todo' = todo \ {id}
  /\ workers' = workers \cup {id}
  /\ UNCHANGED <<env, files, pc, exit, conn, processed_versions, versions,
                 rx, handle, wbuf, collected, runs, hist>>

\* The thread runs the closure on its candidate.  A panic of the closure
\* (explicit, or the unwrap() of a send into a channel whose receiver is
\* gone) is resumed in main by rayon.
WorkerFinish(id) ==
  /\ pc = "work"
  /\ id \in workers
  /\ LET o == Outcome(task, artifact[id])
         e == [version_id |-> id, val |-> o.val]
     IN /\ inspected' = inspected \cup {id}
        /\ workers' = workers \ {id}
        /\ IF SendsEntry(o) /\ handle # "panicked"
             THEN rx' = Append(rx, e) /\ sent' = Append(sent, e)
             ELSE UNCHANGED <<rx, sent>>
        /\ collected' = IF o.res = "keep" THEN collected \cup {id} ELSE collected
        /\ pc' = IF o.res = "panic" \/ (SendsEntry(o) /\ handle = "panicked")
                   THEN "panicked" ELSE pc
  /\ UNCHANGED <<env, files, exit, conn, processed_versions, versions, todo,
                 handle, wbuf, runs, journal0>>

\* for_each has returned: drop(tx), then handle.join().
WorkersDone ==
  /\ pc = "work"
  /\ UsesJournal(task)
  /\ todo = {}
  /\ workers = {}
  /\ pc' = "joining"
  /\ UNCHANGED <<env, files, exit, conn, processed_versions, versions, todo,
                 workers, rx, handle, wbuf, collected, runs, hist>>

WriterRecv_M ==
  /\ Running
  /\ handle = "open"
  /\ rx # <<>>
  /\ rx' = Tail(rx)
  /\ wbuf' = Append(wbuf, WriteRecord(task, Head(rx)))
  /\ UNCHANGED <<env, files, pc, exit, conn, processed_versions,
                 versions, todo, workers, handle, collected, runs, hist>>

\* Writer thread: one iteration of `for entry in rx`: write_record puts the
\* record into the buffer of csv::Writer, which is written to the file
\* when it is full.
WriterRecv ==
  /\ Running
  /\ handle = "open"
  /\ rx # <<>>
  /\ rx' = Tail(rx)
  /\ LET r == WriteRecord(task, Head(rx))
     IN IF Len(wbuf) >= BufCap
          THEN journal' = journal \o wbuf /\ wbuf' = <<r>>
          ELSE journal' = journal /\ wbuf' = Append(wbuf, r)
  /\ UNCHANGED <<env, csv_exists, sql, pc, exit, conn, processed_versions,
                 versions, todo, workers, handle, collected, runs, hist>>

\* Writer thread: the write of the full buffer to the file fails inside
\* write_record, which returns the error, and unwrap() panics the thread.
\* The unwinding drops rx and the csv::Writer, whose Drop flushes the buffer
\* once more and ignores the result: the buffered records reach the file
\* or not.  The entry being written is lost.
WriterWriteFail ==
  /\ Running
  /\ handle = "open"
  /\ rx # <<>>
  /\ Len(wbuf) >= BufCap
  /\ journal' \in {journal, journal \o wbuf}
  /\ wbuf' = <<>>
  /\ rx' = <<>>
  /\ handle' = "panicked"
  /\ UNCHANGED <<env, csv_exists, sql, pc, exit, conn, processed_versions,
                 versions, todo, workers, collected, runs, hist>>

\* Writer thread: the channel is closed and empty, the loop ends, and the
\* flush in the Drop of csv::Writer fails.  Drop ignores the error (there is
\* no explicit writer.flush()), so the thread ends normally and the
\* buffered records are lost.
WriterFinishFail ==
  /\ Running
  /\ handle = "open"
  /\ rx = <<>>
  /\ TxDropped
  /\ wbuf # <<>>
  /\ wbuf' = <<>>
  /\ handle' = "done"
  /\ UNCHANGED <<env, files, pc, exit, conn, processed_versions,
                 versions, todo, workers, rx, collected, runs, hist>>

\* Writer thread: the channel is closed and empty, the loop ends, the
\* csv::Writer is dropped (which flushes its buffer) and the file is closed.
WriterFinish ==
  /\ Running
  /\ handle = "open"
  /\ rx = <<>>
  /\ TxDropped
  /\ journal' = journal \o wbuf
  /\ wbuf' = <<>>
  /\ handle' = "done"
  /\ UNCHANGED <<env, csv_exists, sql, pc, exit, conn, processed_versions,
                 versions, todo, workers, rx, collected, runs, hist>>

\* handle.join().unwrap()
Join ==
  /\ pc = "joining"
  /\ handle \in {"done", "panicked"}
  /\ pc' = IF handle = "done" THEN "compile" ELSE "panicked"
  /\ UNCHANGED <<env, files, exit, conn, processed_versions, versions, todo,
                 workers, rx, handle, wbuf, collected, runs, hist>>

\* The SQL generation step.
CompileSql ==
  /\ pc = "compile"
  /\ sql' = Compile(task, journal)
  /\ pc' = IF CompileFails(task, journal) THEN "panicked" ELSE "done"
  /\ UNCHANGED <<env, journal, csv_exists, exit, conn, processed_versions,
                 versions, todo, workers, rx, handle, wbuf, collected, runs, hist>>

\* links task: collect, par_sort, write the statements.
LinksWrite ==
  /\ pc = "work"
  /\ ~UsesJournal(task)
  /\ todo = {}
  /\ workers = {}
  /\ sql' = LinksSql(collected)
  /\ pc' = "done"
  /\ UNCHANGED <<env, journal, csv_exists, exit, conn, processed_versions,
                 versions, todo, workers, rx, handle, wbuf, collected, runs, hist>>

\* The process ends, all its threads with it: its memory is gone, what is
\* in the channel and in the writer's buffer is lost.
Halt(status) ==
  /\ pc' = "exited"
  /\ exit' = status
  /\ conn' = FALSE
  /\ todo' = {}
  /\ workers' = {}
  /\ rx' = <<>>
  /\ wbuf' = <<>>
  /\ processed_versions' = {}
  /\ versions' = {}
  /\ handle' = "none"
  /\ collected' = {}
  /\ inspected' = {}
  /\ sent' = <<>>
  /\ UNCHANGED <<env, files, runs, journal0>>

\* main returns Ok(()): exit status 0.
ExitOk ==
  /\ pc = "done"
  /\ Halt("ok")

\* main has panicked: the process exits with the panic status.
PanicExit ==
  /\ pc = "panicked"
  /\ Halt("panic")

\* The run is killed externally.
Kill ==
  /\ Running
  /\ Halt("killed")

Next ==
  \/ StartRun
  \/ StoreFail
  \/ LoadAndFilter
  \/ SpawnWriter
  \/ StartLinks
  \/ WriterOpen
  \/ WriterOpenFail
  \/ \E id \in Ids : WorkerTake(id)
  \/ \E id \in Ids : WorkerFinish(id)
  \/ WorkersDone
  \/ WriterRecv
  \/ WriterWriteFail
  \/ WriterFinish
  \/ WriterFinishFail
  \/ Join
  \/ CompileSql
  \/ LinksWrite
  \/ ExitOk
  \/ PanicExit
  \/ Kill

Spec == Init /\ [][Next]_vars

\* -------------------------------------------- runs without a fatal error
\* The steps of runs in which the store and the journal file do not fail
\* and that are not killed.  (The panic of the links task on a manifest
\* without a package section is a step of the closure, not a failure of the
\* environment: it stays.)
NextNoFault ==
  \/ StartRun
  \/ LoadAndFilter
  \/ SpawnWriter
  \/ StartLinks
  \/ WriterOpen
  \/ \E id \in Ids : WorkerTake(id)
  \/ \E id \in Ids : WorkerFinish(id)
  \/ WorkersDone
  \/ WriterRecv
  \/ WriterFinish
  \/ Join
  \/ CompileSql
  \/ LinksWrite
  \/ ExitOk
  \/ PanicExit

\* Fair scheduling: main, the threads of the rayon pool and the writer
\* thread are not stopped for ever while they can take a step.
Fairness ==
  /\ WF_vars(LoadAndFilter)
  /\ WF_vars(SpawnWriter)
  /\ WF_vars(WriterOpen)
  /\ WF_vars(\E id \in Ids : WorkerTake(id))
  /\ WF_vars(\E id \in Ids : WorkerFinish(id))
  /\ WF_vars(WorkersDone)
  /\ WF_vars(WriterRecv)
  /\ WF_vars(WriterFinish)
  /\ WF_vars(Join)

FairSpec == Init /\ [][NextNoFault]_vars /\ Fairness

\* ------------------------------------------- the SQL generation step alone
\* The records a journal file can hold for a task: the records the writer
\* writes, a record cut short (one field), and a record whose id field is
\* not a number.
WrittenRecords(t) ==
  {WriteRecord(t, [version_id |-> id, val |-> Outcome(t, k).val]) :
     id \in Ids, k \in {x \in Kinds(t) : SendsEntry(Outcome(t, x))}}

JournalRecords(t) ==
  WrittenRecords(t) \cup {<<"1">>}
    \cup {[r EXCEPT ![1] = "x"] : r \in {w \in WrittenRecords(t) : w[1] = "1"}}

JournalFiles(t) ==
  UNION {[1..n -> JournalRecords(t)] : n \in 0..MaxRecords}

\* main is about to generate the SQL file from a journal file of any
\* content: the workers are done and the writer thread is joined.
InitCompile ==
  /\ task \in Tasks \ {"links"}
  /\ artifact = [id \in Ids |-> "ok"]
  /\ journal \in JournalFiles(task)
  /\ csv_exists = TRUE
  /\ sql = <<>>
  /\ pc = "compile"
  /\ exit = "none"
  /\ conn = ~DropsConn(task)
  /\ processed_versions = {}
  /\ versions = {}
  /\ todo = {}
  /\ workers = {}
  /\ rx = <<>>
  /\ handle = "done"
  /\ wbuf = <<>>
  /\ collected = {}
  /\ runs = 1
  /\ journal0 = journal
  /\ inspected = {}
  /\ sent = <<>>

NextCompile ==
  \/ CompileSql
  \/ ExitOk
  \/ PanicExit

SpecCompile == InitCompile /\ [][NextCompile]_vars

TypeOK ==
  /\ task \in Tasks
  /\ pc \in {"idle", "queried", "filtered", "work", "joining", "compile",
             "done", "panicked", "exited"}
  /\ exit \in {"none", "ok", "err", "panic", "killed"}
  /\ Cardinality(workers) <= NumWorkers
  /\ handle \in {"none", "spawned", "open", "done", "panicked"}
  /\ versions \subseteq Ids
  /\ Len(wbuf) <= BufCap

\* ------------------------------------------------------------ properties
\* The record ids of all records physically in a journal file.
JournalIds(file) == {Parse(r[1]) : r \in Range(file)}

\* main is past the resolved-set filter of a journal task.
AfterFilter ==
  UsesJournal(task) /\ pc \in {"filtered", "work", "joining", "compile", "done", "panicked"}

\* The records the current run has put into the file.
Appended == SubSeq(journal, Len(journal0) + 1, Len(journal))

\* Record r is the complete image of entry e: its id and all its columns.
Image(r, e) == ParseOk(r[1]) /\ Parse(r[1]) = e.version_id /\ Len(r) = 1 + Len(e.val)

\* The entry "explicitly no value" of the edition task.
IsSentinel(r) == task = "edition" /\ r[2] = "NULL"

\* The artifact of id is one the inspection fails on: no file, a file too
\* large for the crate-size task, a tarball that cannot be processed.
FailsInspection(id) ==
  \/ artifact[id] = "missing"
  \/ task = "crate_size" /\ artifact[id] = "toolarge"
  \/ task # "crate_size" /\ artifact[id] = "unparsable"

SqlRows == UNION {Range(sql[i]) : i \in 1..Len(sql)}

\* C1 (Resumability): in a fresh run after a killed run, the candidates
\* dispatched to the workers are exactly the candidates of the store whose id
\* has no record in the journal, and no worker inspects the artifact of an id
\* that has a record in the journal, the physically first record included.
C1_Resumability ==
  (exit = "killed" /\ AfterFilter) =>
    /\ versions = Store \ JournalIds(journal0)
    /\ inspected \cap JournalIds(journal0) = {}

\* C2 (Skip-safety): a candidate whose inspection failed has no record in the
\* journal, none on its way to it, and is in the filtered candidate list of
\* the run that follows.
C2_SkipSafety ==
  \A id \in Ids :
    FailsInspection(id) =>
      /\ id \notin JournalIds(journal \o wbuf)
      /\ \A k \in 1..Len(rx) : rx[k].version_id # id
      /\ AfterFilter => id \in versions

C2_Witness ==
  /\ runs >= 2
  /\ pc = "work"
  /\ UsesJournal(task)
  /\ journal # <<>>
  /\ \E id \in inspected : FailsInspection(id)

\* C3 (Partition completeness): the rows of the batches the SQL generation
\* step writes are exactly the non-sentinel records of the journal, the first
\* record included, and no two batches share a row.
C3_PartitionComplete ==
  (pc = "done" /\ UsesJournal(task)) =>
    /\ SqlRows = {r \in Range(journal) : ~IsSentinel(r)}
    /\ \A i, j \in 1..Len(sql) : i # j => Range(sql[i]) \cap Range(sql[j]) = {}

\* C4 (Idempotence): a run that completes after a run that completed leaves
\* the set of journaled ids as it found it, appends no record for an id that
\* was journaled already, and writes no row into two batches.
C4_Idempotence ==
  (pc = "done" /\ UsesJournal(task) /\ exit = "ok") =>
    /\ JournalIds(journal) = JournalIds(journal0)
    /\ \A k \in 1..Len(Appended) : Parse(Appended[k][1]) \notin JournalIds(journal0)
    /\ \A i, j \in 1..Len(sql) : i # j => Range(sql[i]) \cap Range(sql[j]) = {}

\* C5 (ResolvedSet): the set a run filters its candidates with is the set of
\* ids of all records in the journal when the run started, the first record
\* included.
C5_ResolvedSetIsJournal ==
  AfterFilter => processed_versions = JournalIds(journal0)

\* C6 (Journal monotonicity): every step leaves the records that were in the
\* journal where they were: the journal before the step is a prefix of the
\* journal after it, and no journaled id disappears.
C6_JournalMonotone ==
  [][IsPrefix(journal, journal') /\ JournalIds(journal) \subseteq JournalIds(journal')]_vars

C6_Witness ==
  /\ runs >= 2
  /\ journal0 # <<>>
  /\ Len(journal) > Len(journal0)

\* C7 (Join ordering): when the SQL generation step is about to read the
\* journal, no worker is busy, no candidate is left, the channel is closed
\* and empty, the writer thread has terminated with an empty buffer, and the
\* journal ends with the complete records of all entries sent in this run.
C7_JoinOrdering ==
  pc = "compile" =>
    /\ todo = {}
    /\ workers = {}
    /\ rx = <<>>
    /\ handle = "done"
    /\ wbuf = <<>>
    /\ IsPrefix(journal0, journal)
    /\ Len(Appended) = Len(sent)
    /\ \A k \in 1..Len(sent) : Image(Appended[k], sent[k])

\* C8 (Crash safety), as claimed: at every point at most one entry that the
\* writer has received is not yet in the journal file.
C8_AtMostOneInFlight == Len(wbuf) <= 1

\* C8, amended: the entries the writer has received and that are not yet in
\* the file are the ones in the buffer of csv::Writer, at most its capacity;
\* while the writer thread runs nothing that was sent is lost or reordered.
C8_AtMostBufferInFlight ==
  /\ Len(wbuf) <= BufCap
  /\ (Running /\ handle \in {"spawned", "open"}) =>
       /\ IsPrefix(journal0, journal)
       /\ Len(Appended) + Len(wbuf) + Len(rx) = Len(sent)
       /\ \A k \in 1..Len(Appended \o wbuf) : Image((Appended \o wbuf)[k], sent[k])

C8_Witness ==
  /\ handle = "open"
  /\ Len(wbuf) > 1
  /\ rx # <<>>

\* C9 (Single writer): the journal is open for writing only in the writer
\* thread and only between the resolved-set load and the SQL generation step,
\* and the records put into it are, in the order of sending, the complete
\* image of one sent entry each.
C9_SingleWriter ==
  /\ handle = "open" => pc \in {"work", "joining", "panicked"}
  /\ pc \in {"queried", "filtered"} => handle = "none"
  /\ (UsesJournal(task) /\ pc \in {"compile", "done"}) => handle = "done"
  /\ (Running /\ handle \in {"spawned", "open", "done"}) =>
       /\ IsPrefix(journal0, journal)
       /\ Len(Appended \o wbuf) <= Len(sent)
       /\ \A k \in 1..Len(Appended \o wbuf) : Image((Appended \o wbuf)[k], sent[k])

C9_Witness ==
  /\ handle = "open"
  /\ Len(Appended \o wbuf) >= 2
  /\ workers # {}

\* C10 (Per-item failures are contained): main panics only when the writer
\* thread has panicked on the journal file, whatever the artifacts are, and
\* when the workers are done every filtered candidate has been processed.
C10_ItemFailuresContained ==
  /\ pc = "panicked" => handle = "panicked"
  /\ pc \in {"joining", "done"} => inspected = versions


\* The SQL generation step has panicked (no other panic of a journal task
\* leaves the writer thread joined normally).
CompileAborted == UsesJournal(task) /\ pc = "panicked" /\ handle = "done"

\* C11 (Compilation is all-or-nothing): when the SQL generation step aborts
\* on a malformed record, the SQL file holds no batch at all.
C11_AllOrNothing == CompileAborted => sql = <<>>

\* What another writer has put into the target field of a version.
Other == <<"other">>

\* C12 (No clobbering of concurrent writers): executing any statement of the
\* SQL file of any task on a store in which another writer has set the
\* target field of some versions leaves the field of these versions as it is.
C12_NoClobber ==
  pc = "done" =>
    \A i \in 1..Len(sql) : \A st \in [Ids -> {<<>>, Other}] : \A id \in Ids :
      st[id] = Other => ApplyBatch(task, sql[i], st)[id] = Other

\* The places (statement, row) of the SQL file that hold a row for id.
RowsOf(id) ==
  {p \in UNION {{<<i, k>> : k \in 1..Len(sql[i])} : i \in 1..Len(sql)} :
     sql[p[1]][p[2]][1] = to_string(id)}

\* The positions of the journal that hold a record for id.
RecordsOf(id) == {k \in 1..Len(journal) : journal[k][1] = to_string(id)}

\* C13 (Deduplication): when the journal holds two or more records for an
\* id, the SQL file written from it holds exactly one row for that id, and
\* the row is the last of these records.
C13_Deduplicated ==
  (pc = "done" /\ UsesJournal(task)) =>
    \A id \in Ids :
      Cardinality(RecordsOf(id)) >= 2 =>
        /\ Cardinality(RowsOf(id)) = 1
        /\ \A p \in RowsOf(id) :
             sql[p[1]][p[2]] = journal[CHOOSE k \in RecordsOf(id) :
                                         \A j \in RecordsOf(id) : j <= k]

\* Every batch has at most n rows and at least one, and every batch but the
\* last has exactly n.
BatchesBounded(batches, n) ==
  \A i \in 1..Len(batches) :
    /\ Len(batches[i]) \in 1..n
    /\ i < Len(batches) => Len(batches[i]) = n

\* C14 (Batch size bound): the statements in the SQL file hold at most
\* chunk_size rows each and only the last one may hold fewer; the same is
\* true of what the step writes from the journal for every chunk size from 1
\* up to one more than the configured one.
C14_BatchSizeBound ==
  /\ (UsesJournal(task) /\ (pc = "done" \/ CompileAborted)) =>
       BatchesBounded(sql, chunk_size)
  /\ UsesJournal(task) =>
       \A n \in 1..(chunk_size + 1) : BatchesBounded(CompileWith(task, journal, n), n)

C14_Witness ==
  /\ pc = "done"
  /\ UsesJournal(task)
  /\ Len(sql) >= 2
  /\ Len(sql[Len(sql)]) < chunk_size

\* The scenario of C15: the crate-size task, artifacts for ids 1 and 3 only.
ExampleScenario ==
  /\ task = "crate_size"
  /\ \A id \in Ids : artifact[id] = IF id \in {1, 3} THEN "ok" ELSE "missing"

\* C15 (Example scenario): in the scenario, the journal of the first complete
\* run holds records for exactly ids 1 and 3; the SQL file it writes with
\* chunk size 2 is one statement of two rows, for ids 1 and 3; and the
\* filtered candidates of a second run are the ids other than 1 and 3.
C15_Example ==
  ExampleScenario =>
    /\ (runs = 1 /\ pc = "done") =>
         /\ JournalIds(journal) = {1, 3}
         /\ Len(sql) = 1
         /\ Len(sql[1]) = 2
         /\ {Parse(r[1]) : r \in SqlRows} = {1, 3}
    /\ (runs = 2 /\ exit = "ok" /\ AfterFilter) => versions = Ids \ {1, 3}

\* The writer thread has failed on the journal file in this run: it has
\* panicked on the open or on a write, or it has ended with entries it had
\* received missing from the file.
JournalIOFailed ==
  /\ UsesJournal(task)
  /\ \/ handle = "panicked"
     \/ handle = "done" /\ Len(Appended) < Len(sent)

\* C18 (Journal IO failure is fatal): once the writer thread has failed to
\* open the journal or to put a received record into it, main never reaches
\* the SQL generation step and never completes.
C18_JournalIOFatal == JournalIOFailed => pc \notin {"compile", "done"}

\* C17 (Store failure is fatal and has no partial effect): a run that ends
\* in the step that starts it (the connection or the candidate query fails)
\* ends with the error status, has started no worker and no writer thread,
\* has sent nothing, and leaves the journal and the SQL file as they were.
C17_StoreFailureNoEffect ==
  [][(runs' = runs + 1 /\ pc' = "exited") =>
       /\ exit' = "err"
       /\ journal' = journal
       /\ csv_exists' = csv_exists
       /\ sql' = sql
       /\ handle' = "none"
       /\ workers' = {}
       /\ inspected' = {}
       /\ sent' = <<>>]_vars

C17_Witness ==
  /\ pc = "exited"
  /\ exit = "err"
  /\ runs = 2
  /\ journal # <<>>
  /\ sql # <<>>

\* C19 (The store connection is released before the worker pool starts):
\* in every task, while the parallel iterator runs (a worker is processing a
\* candidate or candidates are still to be taken) the connection is closed.
C19_ConnReleased == pc = "work" => ~conn

\* C16 (Writer termination): under fair scheduling, in runs without a fatal
\* error, a run of a journal task whose workers have started reaches the SQL
\* generation step with all candidates processed, the channel closed and
\* empty, the writer thread terminated with an empty buffer, and every
\* entry sent in the run in the journal.
C16_WriterTermination ==
  (pc = "work" /\ UsesJournal(task)) ~>
    /\ pc = "compile"
    /\ todo = {}
    /\ workers = {}
    /\ rx = <<>>
    /\ wbuf = <<>>
    /\ handle = "done"
    /\ Len(Appended) = Len(sent)

C16_Witness ==
  /\ pc = "compile"
  /\ handle = "done"
  /\ Len(sent) >= 2
  /\ Len(Appended) = Len(sent)

\* The ids of the entries sent in this run, in the order of sending.
SentIds == [k \in 1..Len(sent) |-> sent[k].version_id]

\* C21 (Dispatched exactly once): while the pool works, every filtered
\* candidate is in exactly one of three places: not yet taken, being
\* processed by one thread, or processed; a processed candidate is never
\* taken again.  Every entry sent is the entry of a processed candidate, no
\* candidate has two entries, and the run has appended at most as many
\* records as entries were sent, hence at most as many as candidates.
C21_DispatchedOnce ==
  /\ pc = "work" =>
       /\ todo \cup workers \cup inspected = versions
       /\ todo \cap workers = {}
       /\ todo \cap inspected = {}
       /\ workers \cap inspected = {}
  /\ Running =>
       /\ Range(SentIds) \subseteq inspected
       /\ \A j, k \in 1..Len(sent) : j # k => SentIds[j] # SentIds[k]
       /\ inspected \subseteq versions
       /\ Len(journal) - Len(journal0) <= Len(sent)
       /\ Len(sent) <= Cardinality(versions)

C21_Witness ==
  /\ pc = "work"
  /\ workers # {}
  /\ todo # {}
  /\ Len(sent) >= 1
  /\ handle = "open"

\* C22 (One record per id): whatever runs have taken place, complete or
\* interrupted, no two records of the journal file have the same id.
C22_JournalUnique ==
  \A j, k \in 1..Len(journal) : j # k => journal[j][1] # journal[k][1]

\* The inspection of id succeeds and derives the value the store has.
MatchesStored(id) == task \in {"features", "lib_bin"} /\ artifact[id] = "same"

\* C23 (No-op candidates are re-inspected): a candidate whose derived value
\* matches the stored one never has a record in the journal nor an entry on
\* its way to it; it is in the filtered candidates of every run, and every
\* run whose workers finish has inspected it.
C23_NoOpReinspected ==
  \A id \in Ids :
    MatchesStored(id) =>
      /\ id \notin JournalIds(journal \o wbuf)
      /\ \A k \in 1..Len(rx) : rx[k].version_id # id
      /\ AfterFilter => id \in versions
      /\ pc \in {"joining", "compile", "done"} => id \in inspected

C23_Witness ==
  /\ runs = 2
  /\ exit = "ok"
  /\ pc = "joining"
  /\ journal0 # <<>>
  /\ \E id \in inspected : MatchesStored(id)

\* C24 (Sentinel handling), edition task: the record of a candidate whose
\* manifest yields no edition holds the sentinel NULL; an id that has a
\* sentinel record in the journal when a run starts is not among the
\* filtered candidates of that run; and no row of the SQL file is a
\* sentinel record.
C24_Sentinel ==
  task = "edition" =>
    /\ \A r \in Range(journal \o wbuf) :
         artifact[Parse(r[1])] = "nopkg" => IsSentinel(r)
    /\ AfterFilter =>
         \A r \in Range(journal0) : IsSentinel(r) => Parse(r[1]) \notin versions
    /\ pc = "done" => \A r \in SqlRows : ~IsSentinel(r)

\* The orders in which n statements can be executed.
Orders(n) == {f \in [1..n -> 1..n] : \A i, j \in 1..n : i # j => f[i] # f[j]}

\* Executing the statements of the SQL file in any order gives the same store.
OrderIrrelevant ==
  \A st \in [Ids -> {<<>>, Other}] : \A f \in Orders(Len(sql)) :
    ApplyAll(task, [i \in 1..Len(sql) |-> sql[f[i]]], st) = ApplyAll(task, sql, st)

\* C25 (Batch order is irrelevant): for the SQL file written from the journal
\* of any run, no id is updated by more than one row, and executing the
\* statements in any order gives the same final store.
C25_BatchOrderIrrelevant ==
  (pc = "done" /\ UsesJournal(task)) =>
    /\ \A id \in Ids : Cardinality(RowsOf(id)) <= 1
    /\ OrderIrrelevant

\* A values list of n rows: rows separated by one comma each, no separator
\* before the first row and none after the last.
WellFormedValues(tokens, n) ==
  /\ Len(tokens) = 2 * n - 1
  /\ \A k \in 1..Len(tokens) : (tokens[k] = ",") <=> (k % 2 = 0)

\* C26 (Well-formed statements): in every task, the values list of every
\* statement of the SQL file, whatever the number of its rows, has one comma
\* between consecutive rows and no separator after its last row.
C26_WellFormedStatements ==
  (pc = "done" /\ UsesJournal(task)) =>
    \A i \in 1..Len(sql) : WellFormedValues(Render(task, sql[i]), Len(sql[i]))

\* The rows of the statements of a SQL file, in the order of the file.
RECURSIVE Flatten(_)
Flatten(batches) ==
  IF batches = <<>> THEN <<>> ELSE Head(batches) \o Flatten(Tail(batches))

\* C27 (Shape of the batching): the SQL file written from the journal holds
\* no empty statement, every statement but the last holds chunk_size rows,
\* and the rows of the statements, taken in order, are the records of the
\* journal that are not sentinel records, in the order of the journal.
C27_BatchingShape ==
  (pc = "done" /\ UsesJournal(task)) =>
    /\ BatchesBounded(sql, chunk_size)
    /\ Flatten(sql) = SelectSeq(journal, LAMBDA r : ~IsSentinel(r))

\* C28 (The resolved-set filter is a pure function): the step that loads the
\* resolved set and filters the candidates leaves exactly the candidates
\* whose id is not in the set, changes neither the journal nor the SQL file
\* nor the artifacts, and, when the journal file does not exist, takes the
\* set as empty and keeps every candidate.
C28_FilterPure ==
  [][(pc = "queried" /\ pc' = "filtered") =>
       /\ versions' \subseteq versions
       /\ \A v \in versions : v \in versions' <=> v \notin processed_versions'
       /\ UNCHANGED <<env, files>>
       /\ ~csv_exists => (processed_versions' = {} /\ versions' = Store)]_vars

C28_Witness ==
  /\ pc = "filtered"
  /\ runs = 2
  /\ processed_versions # {}
  /\ versions # {}
  /\ versions # Store

====
